---- MODULE Spec2Model ----
(***************************************************************************)
(* Model of the catapulta deployment pipeline: the command handlers of     *)
(* Pipeline (src/pipeline.rs) and the DockerSaveLoad deployer with its     *)
(* health gate (src/deploy/docker_save.rs).  Every call to a collaborator  *)
(* (Provisioner, DnsProvider, Deployer, SshSession) is one step whose      *)
(* outcome is chosen by the environment; the calls of the running command  *)
(* are logged in `calls` in the order in which they return.                *)
(* The builder chains of App and Caddy (src/app.rs, src/caddy.rs) and the  *)
(* two renderers (src/compose.rs, src/caddyfile.rs) are the actions of a   *)
(* second specification, SpecBuild.                                        *)
(***************************************************************************)
EXTENDS Integers, Sequences, FiniteSets, TLC

VARIABLES
    provisioner,   \* Pipeline.provisioner is Some
    dns,           \* Pipeline.dns is Some
    deployer,      \* Pipeline.deployer is Some
    app,           \* Pipeline.app, NoApp before Pipeline::new
    localFiles,    \* env files check_env_files found on the local disk
    servers,       \* names of the servers that exist at the provider
    cmd,           \* the command being run (arguments of the handler)
    pc,            \* position of the running handler, "idle" when none runs
    calls,         \* collaborator calls of the running (or last) command
    result,        \* value returned by the command, Pending while it runs
    server,        \* ServerInfo returned by create_server (its ip)
    apps,          \* slice handed to Deployer::deploy
    idx,           \* loop index over apps (env-file loop, health-gate loop)
    attempt,       \* current attempt of the health-gate loop
    polls,         \* status polls issued for the application gated last
    healthySeen,   \* per application: some poll answered "healthy"
    lastPoll,      \* what the last status poll gave
    slept,         \* seconds of the last sleep of the health gate
    stdout,        \* documents printed on standard output
    input,         \* line read from standard input by the running command
    prev,          \* summary of the previous command
    phase,         \* configuration code: "start", "build", "rendered", "panic"
    bapp,          \* the App value the builder chain has produced so far
    caddy,         \* the Caddy value the builder chain has produced so far
    mutations,     \* builder calls made so far, in call order
    upstream,      \* result of the last App::upstream / App::upstream_port
    manifest,      \* Compose value serialised by compose::render
    caddyfile      \* site block formatted by caddyfile::render

vars == <<provisioner, dns, deployer, app, localFiles, servers, cmd, pc,
          calls, result, server, apps, idx, attempt, polls, healthySeen,
          lastPoll, slept, stdout, input, prev, phase, bapp, caddy,
          mutations, upstream, manifest, caddyfile>>

descriptors == <<phase, bapp, caddy, mutations, upstream, manifest, caddyfile>>

----------------------------------------------------------------------------
(* Bounds of the model *)

MaxApps == 2

MaxCalls == 3

MaxTries == 3

(* Program constants *)

MAX_ATTEMPTS == 30
SETUP_ATTEMPTS == 30
SETUP_INTERVAL == 10
INTERVAL == 5
GRACE == 5

----------------------------------------------------------------------------
(* Input domains *)

None == "none"

AppNames == <<"api", "web", "worker">>
EnvPaths == <<"deploy/.env.api", "deploy/.env.web", "deploy/.env.worker">>
ServerNames == {"srv1", "srv2"}
Domains == {None, "example.com"}
Ips == {"10.0.0.1", "10.0.0.2"}
Hosts == {"example.com"}

\* failures a collaborator can return (variants of DeployError)
ErrTags == {"CommandFailed", "SshFailed"}

\* App as far as the pipeline and the deployer read it
AppOf(i, hasEnv, hasHc) ==
    [name |-> AppNames[i],
     env_file |-> IF hasEnv THEN EnvPaths[i] ELSE None,
     healthcheck |-> hasHc]

AppLists ==
    UNION { { [i \in 1..n |-> AppOf(i, e[i], h[i])] :
                e \in [1..n -> BOOLEAN], h \in [1..n -> BOOLEAN] } :
            n \in 1..MaxApps }

NoApp == [name |-> "", env_file |-> None, healthcheck |-> FALSE]

Apps == { AppOf(1, e, h) : e \in BOOLEAN, h \in BOOLEAN }

\* the env files a slice of applications refers to
EnvPathsOf(slice) ==
    { slice[i].env_file : i \in 1..Len(slice) } \ {None}

\* lines that read_line can deliver on standard input, as character lists
Lines ==
    { <<"y", "e", "s", "\n">>,
      <<" ", "y", "e", "s", " ", "\n">>,
      <<"y", "e", "s">>,
      <<"y", "\n">>,
      <<"Y", "E", "S", "\n">>,
      <<"y", "e", "s", "!", "\n">>,
      <<"n", "o", "\n">>,
      <<"\n">>,
      <<>> }

----------------------------------------------------------------------------
(* Values *)

Pending == [tag |-> "Pending", info |-> "", n |-> 0]
Ok == [tag |-> "Ok", info |-> "", n |-> 0]
Err(tag, info, n) == [tag |-> tag, info |-> info, n |-> n]

\* a logged call: operation, argument, outcome ("ok" or the error) and, for
\* create_server, the address of the server it returned
Call(op, arg, res) == [op |-> op, arg |-> arg, res |-> res, ret |-> ""]
CallRet(op, arg, res, ret) == [op |-> op, arg |-> arg, res |-> res, ret |-> ret]

NoCmd == [kind |-> "none", name |-> "", domain |-> None,
          host |-> "", skip_build |-> FALSE, dry_run |-> FALSE]

\* standard input: nothing read yet, a line read, or a failed read
Unread == [state |-> "unread", line |-> <<>>]
Line(l) == [state |-> "line", line |-> l]
ReadError == [state |-> "error", line |-> <<>>]

NoPrev == [kind |-> "none", name |-> "", created |-> FALSE]

Outcomes == {"ok"} \cup ErrTags

----------------------------------------------------------------------------
(* Descriptors: App (src/app.rs) and Caddy (src/caddy.rs) *)

\* Option<T>: the empty sequence is None, <<x>> is Some(x)
Nothing == <<>>
Some(x) == <<x>>

BuildNames == {"api", "web"}

\* local paths as lists of components: ".env", "deploy/vps/.env", ...
EnvFilePaths == { <<".env">>, <<"deploy", "vps", ".env">>,
                  <<"deploy", ".env.api">> }

ExposedPorts == {8000, 3000}

\* upstream addresses "name:port" given to Caddy::reverse_proxy and ::route
Upstreams == {"api:8000", "web:3000"}

\* (path_pattern, upstream) arguments of Caddy::route
Routes == { <<"/api/*", "api:8000">>, <<"", "web:3000">> }

\* (host_path_or_name, container_path) arguments of Caddy::volume: a bind
\* mount (the source starts with "./" or "/") and a named volume
CaddyVolumes == { <<"./web-static", "/www:ro">>, <<"caddy-certs", "/certs">> }

\* (user, password_hash) arguments of Caddy::basic_auth
Credentials == { <<"admin", "$2a$14$hash">>, <<"ops", "$2a$14$other">> }

App_new(name) ==
    [name |-> name,
     dockerfile |-> "Dockerfile",
     platform |-> "linux/amd64",
     build_args |-> <<>>,
     env |-> <<>>,
     env_file |-> Nothing,
     volumes |-> <<>>,
     expose |-> <<>>,
     ports |-> <<>>,
     healthcheck |-> Nothing,
     context |-> Nothing]

\* Caddy::new is Self::default()
Caddy_new ==
    [basic_auth |-> Nothing,
     reverse_proxy |-> Nothing,
     routes |-> <<>>,
     gzip |-> FALSE,
     security_headers |-> FALSE,
     extra_directives |-> <<>>,
     volumes |-> <<>>]

\* an Upstream value, or the panic of the resolution
Upstream(name, port) == [state |-> "ok", name |-> name, port |-> port]
Panic == [state |-> "panic", name |-> "", port |-> 0]

\* no upstream resolved yet
NoUpstream == [call |-> "none", arg |-> 0,
               out |-> [state |-> "none", name |-> "", port |-> 0]]

\* the site block of a Caddyfile: its address and its directives in order
NoCaddyfile == [address |-> "", directives |-> <<>>]

NoManifest == [services |-> <<>>, volumes |-> <<>>, networks |-> <<>>]

Init ==
    /\ provisioner = FALSE
    /\ dns = FALSE
    /\ deployer = FALSE
    /\ app = NoApp
    /\ localFiles = {}
    /\ servers = {}
    /\ cmd = NoCmd
    /\ pc = "idle"
    /\ calls = <<>>
    /\ result = Pending
    /\ server = None
    /\ apps = <<>>
    /\ idx = 0
    /\ attempt = 0
    /\ polls = 0
    /\ healthySeen = [i \in 1..MaxApps |-> FALSE]
    /\ lastPoll = "none"
    /\ slept = 0
    /\ stdout = <<>>
    /\ input = Unread
    /\ prev = NoPrev
    /\ phase = "start"
    /\ bapp = App_new("")
    /\ caddy = Caddy_new
    /\ mutations = <<>>
    /\ upstream = NoUpstream
    /\ manifest = NoManifest
    /\ caddyfile = NoCaddyfile

----------------------------------------------------------------------------
(* str::trim on character lists *)

Whitespace == {" ", "\n", "\t", "\r"}

RECURSIVE TrimStart(_)
TrimStart(s) ==
    IF s # <<>> /\ Head(s) \in Whitespace THEN TrimStart(Tail(s)) ELSE s

RECURSIVE TrimEnd(_)
TrimEnd(s) ==
    IF s # <<>> /\ s[Len(s)] \in Whitespace
    THEN TrimEnd(SubSeq(s, 1, Len(s) - 1))
    ELSE s

Trim(s) == TrimEnd(TrimStart(s))

Yes == <<"y", "e", "s">>

\* a confirmation test that accepts every answer starting with y
ConfirmedLoose(line) == Trim(line) # <<>> /\ Head(Trim(line)) = "y"

\* the test of cmd_destroy on the line read: input.trim() != "yes"
Confirmed(line) == Trim(line) = Yes

----------------------------------------------------------------------------
(* Helpers on the call log *)

Ops(log) == [i \in 1..Len(log) |-> log[i].op]

Count(log, op) == Cardinality({ i \in 1..Len(log) : log[i].op = op })

CreatedIn(log) ==
    \E i \in 1..Len(log) : log[i].op = "create_server" /\ log[i].res = "ok"

\* the handler returns res and the process ends
Return(res) ==
    /\ pc' = "idle"
    /\ result' = res

\* a step that goes on whatever the collaborator returned
TrySwallow(o, next) == pc' = next /\ UNCHANGED result

\* a `?` on a collaborator result: go on when it is Ok, return the error
\* unchanged otherwise
Try(o, next) ==
    IF o \in ErrTags
    THEN Return(Err(o, "", 0))
    ELSE pc' = next /\ UNCHANGED result

Idle == pc = "idle"

----------------------------------------------------------------------------
(* Pipeline::new and the builder: provision(), dns(), deploy() *)

Pipeline_new ==
    /\ Idle /\ cmd = NoCmd /\ app = NoApp
    /\ app' \in Apps
    /\ UNCHANGED <<provisioner, dns, deployer, localFiles, servers, cmd, pc,
                   calls, result, server, apps, idx, attempt, polls,
                   healthySeen, lastPoll, slept, stdout, input, prev, descriptors>>

Built == app # NoApp

Pipeline_provision ==
    /\ Idle /\ cmd = NoCmd /\ Built /\ ~provisioner
    /\ provisioner' = TRUE
    /\ UNCHANGED <<dns, deployer, app, localFiles, servers, cmd, pc, calls,
                   result, server, apps, idx, attempt, polls, healthySeen, lastPoll,
                   slept, stdout, input, prev, descriptors>>

Pipeline_dns ==
    /\ Idle /\ cmd = NoCmd /\ Built /\ ~dns
    /\ dns' = TRUE
    /\ UNCHANGED <<provisioner, deployer, app, localFiles, servers, cmd, pc,
                   calls, result, server, apps, idx, attempt, polls,
                   healthySeen, lastPoll, slept, stdout, input, prev, descriptors>>

Pipeline_deploy ==
    /\ Idle /\ cmd = NoCmd /\ Built /\ ~deployer
    /\ deployer' = TRUE
    /\ UNCHANGED <<provisioner, dns, app, localFiles, servers, cmd, pc,
                   calls, result, server, apps, idx, attempt, polls,
                   healthySeen, lastPoll, slept, stdout, input, prev, descriptors>>

----------------------------------------------------------------------------
(* Pipeline::run: parse the command line and dispatch *)

pipeline == <<provisioner, dns, deployer, app, descriptors>>
config == <<pipeline, localFiles>>
gate == <<idx, attempt, polls, healthySeen, lastPoll, slept>>

Dispatch(c, entry, slice) ==
    /\ Idle
    /\ cmd' = c
    /\ pc' = entry
    /\ calls' = <<>>
    /\ server' = None
    /\ apps' = slice
    /\ idx' = 0
    /\ attempt' = 0
    /\ polls' = 0
    /\ healthySeen' = [i \in 1..MaxApps |-> FALSE]
    /\ lastPoll' = "none"
    /\ slept' = 0
    /\ stdout' = <<>>
    /\ input' = Unread
    /\ localFiles' = {}
    /\ prev' = [kind |-> cmd.kind, name |-> cmd.name,
                created |-> CreatedIn(calls)]
    /\ result' = Pending
    /\ UNCHANGED <<pipeline, servers>>

RunProvision ==
    \E name \in ServerNames, domain \in Domains :
        Built /\ Dispatch([NoCmd EXCEPT !.kind = "provision", !.name = name,
                               !.domain = domain],
                 "check_prerequisites", <<>>)

RunDestroy ==
    \E name \in ServerNames, domain \in Domains :
        Built /\ Dispatch([NoCmd EXCEPT !.kind = "destroy", !.name = name,
                               !.domain = domain],
                 "confirm", <<>>)

----------------------------------------------------------------------------
(* Pipeline::cmd_provision *)

ProvisionCheckPrerequisites ==
    /\ pc = "check_prerequisites"
    /\ IF ~provisioner
       THEN /\ Return(Err("Other", "no provisioner configured", 0))
            /\ UNCHANGED calls
       ELSE \E o \in Outcomes :
            /\ calls' = Append(calls, Call("check_prerequisites", "", o))
            /\ Try(o, "get_server")
    /\ UNCHANGED <<config, servers, cmd, server, apps, gate, stdout, input,
                   prev>>

\* Provisioner::get_server lists the servers of the provider and answers
\* Some exactly when one carries the name
GetServerAnswer(name) == IF name \in servers THEN "some" ELSE "none"

\* a provision that does not look at the answer of get_server
ExistingIgnored(o) == FALSE

\* if let Some(existing) = provisioner.get_server(name)?
Existing(o) == o = "some"

ProvisionGetServer ==
    /\ pc = "get_server"
    /\ \E o \in {GetServerAnswer(cmd.name)} \cup ErrTags :
        /\ calls' = Append(calls, Call("get_server", cmd.name, o))
        /\ IF Existing(o)
           THEN Return(Ok)
           ELSE Try(o, "detect_ssh_key")
    /\ UNCHANGED <<config, servers, cmd, server, apps, gate, stdout, input,
                   prev>>

ProvisionDetectSshKey ==
    /\ pc = "detect_ssh_key"
    /\ \E o \in Outcomes :
        /\ calls' = Append(calls, Call("detect_do_ssh_key", "", o))
        /\ Try(o, "create_server")
    /\ UNCHANGED <<config, servers, cmd, server, apps, gate, stdout, input,
                   prev>>

\* a provision that sets up the server without the DNS step
AfterCreateNoDns == "setup_server"

\* after create_server: the DNS step only with a provider and a domain
AfterCreate == IF dns /\ cmd.domain # None THEN "upsert_a_record"
               ELSE "setup_server"

ProvisionCreateServer ==
    /\ pc = "create_server"
    /\ \/ \E ip \in Ips :
            /\ calls' = Append(calls,
                               CallRet("create_server", cmd.name, "ok", ip))
            /\ servers' = servers \cup {cmd.name}
            /\ server' = ip
            /\ Try("ok", AfterCreate)
       \/ \E e \in ErrTags, made \in BOOLEAN :
            /\ calls' = Append(calls, Call("create_server", cmd.name, e))
            /\ servers' = IF made THEN servers \cup {cmd.name} ELSE servers
            /\ server' = server
            /\ Try(e, AfterCreate)
    /\ UNCHANGED <<config, cmd, apps, gate, stdout, input,
                   prev>>

ProvisionUpsertARecord ==
    /\ pc = "upsert_a_record"
    /\ \E o \in Outcomes :
        /\ calls' = Append(calls, Call("upsert_a_record", server, o))
        /\ Try(o, "setup_server")
    /\ UNCHANGED <<config, servers, cmd, server, apps, gate, stdout, input,
                   prev>>

ProvisionSetupServer ==
    /\ pc = "setup_server"
    /\ \E o \in Outcomes :
        /\ calls' = Append(calls, Call("setup_server", server, o))
        /\ IF o = "ok" THEN Return(Ok)
           ELSE Return(Err(o, "", 0))
    /\ UNCHANGED <<config, servers, cmd, server, apps, gate, stdout, input,
                   prev>>

----------------------------------------------------------------------------
(* Pipeline::cmd_destroy *)

DestroyConfirm ==
    /\ pc = "confirm"
    /\ IF ~provisioner
       THEN /\ Return(Err("Other", "no provisioner configured", 0))
            /\ UNCHANGED input
       ELSE \/ /\ input' = ReadError
               /\ Return(Err("Io", "", 0))
            \/ \E line \in Lines :
               /\ input' = Line(line)
               /\ IF Confirmed(line)
                  THEN pc' = "destroy_server" /\ UNCHANGED result
                  ELSE Return(Ok)
    /\ UNCHANGED <<config, servers, cmd, calls, server, apps, gate, stdout,
                   prev>>

\* a cmd_destroy that removes the DNS record whether or not a domain was given
AfterDestroyAlways == IF dns THEN "delete_a_record" ELSE "return"

AfterDestroy == IF dns /\ cmd.domain # None THEN "delete_a_record"
                ELSE "return"

DestroyServer ==
    /\ pc = "destroy_server"
    /\ \E o \in (IF cmd.name \in servers THEN {"ok"} ELSE {}) \cup ErrTags
                \cup {"ServerNotFound"} :
        /\ calls' = Append(calls, Call("destroy_server", cmd.name, o))
        /\ servers' = IF o = "ok" THEN servers \ {cmd.name} ELSE servers
        /\ IF o # "ok" THEN Return(Err(o, "", 0))
           ELSE IF AfterDestroy = "return" THEN Return(Ok)
           ELSE pc' = AfterDestroy /\ UNCHANGED result
    /\ UNCHANGED <<config, cmd, server, apps, gate, stdout, input,
                   prev>>

DestroyDeleteARecord ==
    /\ pc = "delete_a_record"
    /\ \E o \in Outcomes :
        /\ calls' = Append(calls, Call("delete_a_record", "", o))
        /\ IF o = "ok" THEN Return(Ok)
           ELSE Return(Err(o, "", 0))
    /\ UNCHANGED <<config, servers, cmd, server, apps, gate, stdout, input,
                   prev>>

----------------------------------------------------------------------------
(* Pipeline::cmd_deploy and cmd_deploy_dry_run *)

RunDeploy ==
    \E host \in Hosts, skip_build \in BOOLEAN, dry_run \in BOOLEAN :
        Built /\ cmd = NoCmd /\ Dispatch([NoCmd EXCEPT !.kind = "deploy", !.host = host,
                               !.skip_build = skip_build,
                               !.dry_run = dry_run],
                 "cmd_deploy", <<app>>)

\* a head of cmd_deploy that looks for the deployer before the dry-run flag
DeployEntryDeployerFirst(dry_run, hasDeployer, skip_build) ==
    IF ~hasDeployer THEN "no_deployer"
    ELSE IF dry_run THEN "dry_run"
    ELSE IF ~skip_build THEN "build_image"
    ELSE "transfer_image"

\* the head of cmd_deploy: where the handler goes first
DeployEntry(dry_run, hasDeployer, skip_build) ==
    IF dry_run THEN "dry_run"
    ELSE IF ~hasDeployer THEN "no_deployer"
    ELSE IF ~skip_build THEN "build_image"
    ELSE "transfer_image"

Entry == DeployEntry(cmd.dry_run, deployer, cmd.skip_build)

DeployDryRun ==
    /\ pc = "cmd_deploy" /\ Entry = "dry_run"
    /\ stdout' = <<"docker-compose.yml", "Caddyfile">>
    /\ Return(Ok)
    /\ UNCHANGED <<config, servers, cmd, calls, server, apps, gate, input,
                   prev>>

DeployNoDeployer ==
    /\ pc = "cmd_deploy" /\ Entry = "no_deployer"
    /\ Return(Err("Other", "no deployer configured", 0))
    /\ UNCHANGED <<config, servers, cmd, calls, server, apps, gate, stdout,
                   input, prev>>

DeployBuildImage ==
    /\ pc = "cmd_deploy" /\ Entry = "build_image"
    /\ \E o \in Outcomes :
        /\ calls' = Append(calls, Call("build_image", app.name, o))
        /\ Try(o, "transfer_image")
    /\ UNCHANGED <<config, servers, cmd, server, apps, gate, stdout, input,
                   prev>>

\* DockerSaveLoad::transfer_image: the commands it runs, in order
TransferSteps == <<"docker_image_inspect", "docker_save", "rsync",
                   "docker_load">>

TransferLog(name, k, o) ==
    [i \in 1..k |-> Call(TransferSteps[i], name, IF i = k THEN o ELSE "ok")]

DeployTransferImage ==
    /\ \/ pc = "transfer_image"
       \/ pc = "cmd_deploy" /\ Entry = "transfer_image"
    /\ \E k \in 1..Len(TransferSteps), o \in Outcomes :
        /\ o = "ok" => k = Len(TransferSteps)
        /\ calls' = calls \o TransferLog(app.name, k, o)
        /\ Try(o, "deploy")
    /\ UNCHANGED <<config, servers, cmd, server, apps, gate, stdout, input,
                   prev>>

----------------------------------------------------------------------------
(* DockerSaveLoad::deploy *)

\* Deployer::deploy called on the trait object with a slice of applications
RunDeployerDeploy ==
    \E host \in Hosts, slice \in AppLists :
        ~Built /\ cmd = NoCmd /\ Dispatch([NoCmd EXCEPT !.kind = "deployer_deploy", !.host = host],
                 "deploy", slice)

\* DockerSaveLoad::check_env_files: the first application, in order, whose
\* env file does not exist locally
MissingEnv(slice, files) ==
    { i \in 1..Len(slice) :
        slice[i].env_file # None /\ slice[i].env_file \notin files }

Min(S) == CHOOSE x \in S : \A y \in S : x <= y

check_env_files(slice, files) ==
    IF MissingEnv(slice, files) = {} THEN Ok
    ELSE Err("FileNotFound", slice[Min(MissingEnv(slice, files))].name, 0)

DeployCheckEnvFiles ==
    /\ pc = "deploy"
    /\ \E files \in SUBSET EnvPathsOf(apps) :
       LET r == check_env_files(apps, files) IN
        /\ localFiles' = files
        /\ calls' = Append(calls, Call("check_env_files", "",
                                       IF r = Ok THEN "ok" ELSE r.tag))
        /\ IF r = Ok THEN pc' = "write_compose" /\ UNCHANGED result
           ELSE Return(r)
    /\ UNCHANGED <<pipeline, servers, cmd, server, apps, gate, stdout, input,
                   prev>>

DeployWriteCompose ==
    /\ pc = "write_compose"
    /\ \E o \in Outcomes :
        /\ calls' = Append(calls,
                           Call("write_remote_file", "docker-compose.yml", o))
        /\ Try(o, "write_caddyfile")
    /\ UNCHANGED <<config, servers, cmd, server, apps, gate, stdout, input,
                   prev>>

\* the env-file loop: the next application at or after i with an env file
EnvFrom(slice, i) ==
    { j \in i..Len(slice) : slice[j].env_file # None }

NextEnv(slice, i) ==
    IF EnvFrom(slice, i) = {} THEN Len(slice) + 1 ELSE Min(EnvFrom(slice, i))

\* a deploy that goes to the health gate without restarting the stack
AfterEnvNoRestart(slice, i) ==
    IF i > Len(slice) THEN "wait_healthy" ELSE "scp_to"

AfterEnv(slice, i) == IF i > Len(slice) THEN "restart" ELSE "scp_to"

DeployWriteCaddyfile ==
    /\ pc = "write_caddyfile"
    /\ \E o \in Outcomes :
        /\ calls' = Append(calls, Call("write_remote_file", "Caddyfile", o))
        /\ idx' = IF o = "ok" THEN NextEnv(apps, 1) ELSE idx
        /\ Try(o, AfterEnv(apps, idx'))
    /\ UNCHANGED <<config, servers, cmd, server, apps, attempt, polls,
                   healthySeen, lastPoll, slept, stdout, input, prev>>

DotEnvNames == <<".env.api", ".env.web", ".env.worker">>

\* a deploy that copies every env file to the bare name
RemoteEnvNameBare(slice, i) == ".env"

\* name of the env file of the i-th application in the remote directory
RemoteEnvName(slice, i) ==
    IF Len(slice) > 1 THEN DotEnvNames[i] ELSE ".env"

DeployScpEnvFile ==
    /\ pc = "scp_to"
    /\ \E o \in Outcomes :
        /\ calls' = Append(calls, Call("scp_to", RemoteEnvName(apps, idx), o))
        /\ Try(o, "chmod")
    /\ UNCHANGED <<config, servers, cmd, server, apps, gate, stdout, input,
                   prev>>

DeployChmodEnvFile ==
    /\ pc = "chmod"
    /\ \E o \in Outcomes :
        /\ calls' = Append(calls, Call("chmod", RemoteEnvName(apps, idx), o))
        /\ idx' = IF o = "ok" THEN NextEnv(apps, idx + 1) ELSE idx
        /\ Try(o, AfterEnv(apps, idx'))
    /\ UNCHANGED <<config, servers, cmd, server, apps, attempt, polls,
                   healthySeen, lastPoll, slept, stdout, input, prev>>

\* one command of a shell line and its exit status
Ran(c, ok) == [cmd |-> c, ok |-> ok]

\* a shell line that stops at the first failing command: "cd dir && docker
\* compose down && docker compose up -d"
ShellRestartStrict(cd, down, up) ==
    <<Ran("cd", cd)>>
    \o (IF cd THEN <<Ran("down", down)>> ELSE <<>>)
    \o (IF cd /\ down THEN <<Ran("up", up)>> ELSE <<>>)

\* "cd dir && docker compose down 2>/dev/null || true && docker compose
\* up -d" as the remote shell runs it: && and || have the same precedence
\* and associate to the left, so it is ((cd && down) || true) && up. The
\* teardown runs when cd succeeded, true runs when cd or the teardown
\* failed, and the bring-up runs in every case.
ShellRestart(cd, down, up) ==
    <<Ran("cd", cd)>>
    \o (IF cd THEN <<Ran("down", down)>> ELSE <<>>)
    \o (IF cd /\ down THEN <<>> ELSE <<Ran("true", TRUE)>>)
    \o <<Ran("up", up)>>

\* the exit status of a shell line is that of the last command it ran;
\* cmd::run_interactive turns a non-zero one into CommandFailed
ExitStatus(run) == IF run[Len(run)].ok THEN "ok" ELSE "CommandFailed"

\* ssh.exec_interactive of the restart line: the session may fail before any
\* command runs, otherwise the line runs and its exit status is the result
DeployRestart ==
    /\ pc = "restart"
    /\ \/ \E e \in ErrTags :
            /\ calls' = Append(calls, Call("restart", <<>>, e))
            /\ Try(e, "wait_healthy")
       \/ \E cd \in BOOLEAN, down \in BOOLEAN, up \in BOOLEAN :
            LET run == ShellRestart(cd, down, up)
            IN  /\ calls' = Append(calls, Call("restart", run,
                                               ExitStatus(run)))
                /\ Try(ExitStatus(run), "wait_healthy")
    /\ UNCHANGED <<config, servers, cmd, server, apps, gate, stdout, input,
                   prev>>

----------------------------------------------------------------------------
(* wait_healthy *)

\* a gate that polls every application, health check or not
all_apps(slice) == 1..Len(slice)

\* apps.iter().filter(|a| a.healthcheck.is_some())
apps_with_hc(slice) == { i \in 1..Len(slice) : slice[i].healthcheck }

\* the next health-checked application after i, 0 when there is none
NextHc(slice, i) ==
    IF { j \in apps_with_hc(slice) : j > i } = {} THEN 0
    ELSE Min({ j \in apps_with_hc(slice) : j > i })

\* outputs of docker inspect --format='{{.State.Health.Status}}'
Statuses == { <<"healthy", "\n">>, <<" ", "healthy">>, <<"unhealthy", "\n">>,
              <<"starting", "\n">>, <<>> }

\* a test that looks for the word healthy inside the status
IsHealthyLoose(out) == Trim(out) \in {<<"healthy">>, <<"unhealthy">>}

IsHealthy(out) == Trim(out) = <<"healthy">>

\* a timeout test that is off by one
ExhaustedLate(a) == a = MAX_ATTEMPTS + 1

\* attempt == MAX_ATTEMPTS
Exhausted(a) == a = MAX_ATTEMPTS

WaitHealthyNoHealthcheck ==
    /\ pc = "wait_healthy"
    /\ apps_with_hc(apps) = {}
    /\ slept' = GRACE
    /\ pc' = "status"
    /\ calls' = Append(calls, Call("wait_healthy", "", "ok"))
    /\ UNCHANGED <<config, servers, cmd, result, server, apps, idx,
                   attempt, polls, healthySeen, lastPoll, stdout, input, prev>>

WaitHealthyStart ==
    /\ pc = "wait_healthy"
    /\ apps_with_hc(apps) # {}
    /\ idx' = NextHc(apps, 0)
    /\ attempt' = 1
    /\ polls' = 0
    /\ pc' = "poll"
    /\ UNCHANGED <<config, servers, cmd, calls, result, server, apps,
                   healthySeen, lastPoll, slept, stdout, input, prev>>

\* leave the inner loop for application idx: go on with the next
\* health-checked application, or return Ok to deploy when there is none
NextApp ==
    IF NextHc(apps, idx) = 0
    THEN /\ pc' = "status"
         /\ calls' = Append(calls, Call("wait_healthy", "", "ok"))
         /\ UNCHANGED <<idx, attempt>>
    ELSE /\ pc' = "poll"
         /\ idx' = NextHc(apps, idx)
         /\ attempt' = 1
         /\ UNCHANGED calls

\* the status line says healthy, told without str::trim: the word healthy
\* and white space around it
ReportsHealthy(out) ==
    /\ SelectSeq(out, LAMBDA c : c \notin Whitespace) = <<"healthy">>
    /\ \A i, j \in 1..Len(out) :
        i < j /\ out[i] \notin Whitespace => out[j] \in Whitespace

\* one pass of the inner loop for application idx; healthy is the test
\* status == "healthy" on an Ok poll, FALSE on a failed poll; reported says
\* what the poll gave: "healthy", "other" or "error"
PollStep(healthy, reported) ==
    /\ polls' = IF attempt = 1 THEN 1 ELSE polls + 1
    /\ lastPoll' = reported
    /\ healthySeen' = [healthySeen EXCEPT ![idx] = @ \/ reported = "healthy"]
    /\ IF healthy
       THEN /\ NextApp
            /\ UNCHANGED <<slept, result>>
       ELSE IF Exhausted(attempt)
            THEN /\ Return(Err("HealthcheckTimeout", apps[idx].name,
                               MAX_ATTEMPTS))
                 /\ calls' = Append(calls, Call("wait_healthy",
                                                apps[idx].name,
                                                "HealthcheckTimeout"))
                 /\ UNCHANGED <<idx, attempt, slept>>
            ELSE /\ slept' = INTERVAL
                 /\ UNCHANGED result
                 /\ IF attempt + 1 > MAX_ATTEMPTS
                    THEN NextApp
                    ELSE /\ attempt' = attempt + 1
                         /\ UNCHANGED <<pc, idx, calls>>

WaitHealthyPoll ==
    /\ pc = "poll"
    /\ \/ \E out \in Statuses :
            PollStep(IsHealthy(out),
                     IF ReportsHealthy(out) THEN "healthy" ELSE "other")
       \/ PollStep(FALSE, "error")
    /\ UNCHANGED <<config, servers, cmd, server, apps, stdout, input, prev>>

DeployStatus ==
    /\ pc = "status"
    /\ \E o \in Outcomes :
        /\ calls' = Append(calls, Call("docker_compose_ps", "", o))
        /\ IF o = "ok" THEN Return(Ok) ELSE Return(Err(o, "", 0))
    /\ UNCHANGED <<config, servers, cmd, server, apps, gate, stdout, input,
                   prev>>

----------------------------------------------------------------------------
(* Pipeline::cmd_status *)

RunStatus ==
    \E host \in Hosts :
        Built /\ cmd = NoCmd /\ Dispatch([NoCmd EXCEPT !.kind = "status", !.host = host],
                 "cmd_status", <<>>)

CmdStatus ==
    /\ pc = "cmd_status"
    /\ \E o \in Outcomes :
        /\ calls' = Append(calls, Call("docker_compose_ps", "", o))
        /\ IF o = "ok" THEN Return(Ok) ELSE Return(Err(o, "", 0))
    /\ UNCHANGED <<config, servers, cmd, server, apps, gate, stdout, input,
                   prev>>

----------------------------------------------------------------------------
(* Builder chains of App (src/app.rs) and Caddy (src/caddy.rs).  Every    *)
(* mutator takes the value by move and returns the updated value; the     *)
(* calls are recorded in `mutations` in call order.                       *)

deployment == <<provisioner, dns, deployer, app, localFiles, servers, cmd, pc,
                calls, result, server, apps, gate, stdout, input, prev>>

App_New ==
    /\ phase = "start"
    /\ \E name \in BuildNames : bapp' = App_new(name)
    /\ phase' = "build"
    /\ UNCHANGED <<caddy, mutations, upstream, manifest, caddyfile,
                   deployment>>

\* one call of a mutator: `a` and `c` are the values it returns
Mutate(on, op, arg, a, c) ==
    /\ phase = "build" /\ Len(mutations) < MaxCalls
    /\ bapp' = a
    /\ caddy' = c
    /\ mutations' = Append(mutations, [on |-> on, op |-> op, arg |-> arg])
    /\ UNCHANGED <<phase, upstream, manifest, caddyfile, deployment>>

App_build_arg ==
    \E kv \in {<<"VERSION", "1">>} :
        Mutate("App", "build_arg", kv,
               [bapp EXCEPT !.build_args = Append(@, kv)], caddy)

App_env ==
    \E kv \in {<<"SERVER_PORT", "3000">>} :
        Mutate("App", "env", kv, [bapp EXCEPT !.env = Append(@, kv)], caddy)

\* an env_file that keeps the paths of all its calls
App_env_file_accumulating ==
    \E path \in EnvFilePaths :
        Mutate("App", "env_file", <<path>>,
               [bapp EXCEPT !.env_file = Append(@, path)], caddy)

App_env_file ==
    \E path \in EnvFilePaths :
        Mutate("App", "env_file", <<path>>,
               [bapp EXCEPT !.env_file = Some(path)], caddy)

App_volume ==
    \E nm \in {<<"app-data", "/app/data">>} :
        Mutate("App", "volume", nm,
               [bapp EXCEPT !.volumes = Append(@, nm)], caddy)

App_expose ==
    \E port \in ExposedPorts :
        Mutate("App", "expose", <<port>>,
               [bapp EXCEPT !.expose = Append(@, port)], caddy)

App_port ==
    \E hc \in {<<4222, 4222>>} :
        Mutate("App", "port", hc, [bapp EXCEPT !.ports = Append(@, hc)], caddy)

App_healthcheck ==
    \E c \in {"curl -f http://localhost:3000/"} :
        Mutate("App", "healthcheck", <<c>>,
               [bapp EXCEPT !.healthcheck = Some(c)], caddy)

Caddy_basic_auth ==
    \E cred \in Credentials :
        Mutate("Caddy", "basic_auth", cred, bapp,
               [caddy EXCEPT !.basic_auth = Some(cred)])

Caddy_reverse_proxy ==
    \E u \in Upstreams :
        Mutate("Caddy", "reverse_proxy", <<u>>, bapp,
               [caddy EXCEPT !.reverse_proxy = Some(u)])

Caddy_gzip ==
    Mutate("Caddy", "gzip", <<>>, bapp, [caddy EXCEPT !.gzip = TRUE])

Caddy_security_headers ==
    Mutate("Caddy", "security_headers", <<>>, bapp,
           [caddy EXCEPT !.security_headers = TRUE])

Caddy_route ==
    \E r \in Routes :
        Mutate("Caddy", "route", r, bapp,
               [caddy EXCEPT !.routes = Append(@, r)])

Caddy_directive ==
    \E raw \in {"log"} :
        Mutate("Caddy", "directive", <<raw>>, bapp,
               [caddy EXCEPT !.extra_directives = Append(@, raw)])

Caddy_volume ==
    \E hc \in CaddyVolumes :
        Mutate("Caddy", "volume", hc, bapp,
               [caddy EXCEPT !.volumes = Append(@, hc)])

\* an upstream() that falls back to port 80 when nothing is exposed
App_upstream_defaulting(a) ==
    IF a.expose = <<>> THEN Upstream(a.name, 80)
    ELSE Upstream(a.name, a.expose[1])

\* App::upstream: expose.first().expect(..)
App_upstream(a) ==
    IF a.expose = <<>> THEN Panic ELSE Upstream(a.name, a.expose[1])

\* App::upstream_port: assert!(expose.contains(&port))
App_upstream_port(a, port) ==
    IF \E i \in 1..Len(a.expose) : a.expose[i] = port
    THEN Upstream(a.name, port)
    ELSE Panic

\* the program goes on after a resolution that returned, and aborts on a panic
Resolved(call, arg, u) ==
    /\ upstream = NoUpstream
    /\ upstream' = [call |-> call, arg |-> arg, out |-> u]
    /\ phase' = IF u = Panic THEN "panic" ELSE phase
    /\ UNCHANGED <<bapp, caddy, mutations, manifest, caddyfile, deployment>>

ResolveUpstream ==
    phase = "build" /\ Resolved("upstream", 0, App_upstream(bapp))

ResolveUpstreamPort ==
    /\ phase = "build"
    /\ \E port \in ExposedPorts :
        Resolved("upstream_port", port, App_upstream_port(bapp, port))

\* Caddy::has_upstreams
has_upstreams(c) == c.reverse_proxy # Nothing \/ c.routes # <<>>

----------------------------------------------------------------------------
(* compose::render (src/compose.rs).  The manifest is the Compose value    *)
(* handed to serde_yaml: services and volumes are IndexMaps, kept here as  *)
(* sequences in insertion order; a formatted string is the list of its     *)
(* parts, so "{name}-network" is <<name, "-network">>.                     *)

\* IndexMap::insert on a sequence of [key, value]: a present key keeps its
\* place and takes the new value
Insert(map, key, value) ==
    IF \E i \in 1..Len(map) : map[i].key = key
    THEN [i \in 1..Len(map) |->
            IF map[i].key = key THEN [key |-> key, value |-> value]
            ELSE map[i]]
    ELSE Append(map, [key |-> key, value |-> value])

Keys(map) == [i \in 1..Len(map) |-> map[i].key]

Get(map, key) == map[CHOOSE i \in 1..Len(map) : map[i].key = key].value

NetworkName(a) == <<a.name, "-network">>

\* Service { ..Default::default() }
DefaultService ==
    [image |-> <<>>, container_name |-> <<>>, restart |-> Nothing,
     ports |-> <<>>, expose |-> <<>>, env_file |-> Nothing,
     environment |-> <<>>, volumes |-> <<>>, healthcheck |-> Nothing,
     depends_on |-> <<>>, networks |-> <<>>]

\* a proxy service that only waits for the application to be started
caddy_service_started(a) ==
    [DefaultService EXCEPT
        !.image = <<"caddy:2-alpine">>,
        !.container_name = <<a.name, "-caddy">>,
        !.restart = Some("unless-stopped"),
        !.ports = <<"80:80", "443:443">>,
        !.volumes = << <<"./Caddyfile:/etc/caddy/Caddyfile:ro">>,
                       <<"caddy-data:/data">>,
                       <<"caddy-config:/config">> >>,
        !.depends_on = <<[service |-> a.name,
                          condition |-> "service_started"]>>,
        !.networks = <<NetworkName(a)>>]

caddy_service(a) ==
    [DefaultService EXCEPT
        !.image = <<"caddy:2-alpine">>,
        !.container_name = <<a.name, "-caddy">>,
        !.restart = Some("unless-stopped"),
        !.ports = <<"80:80", "443:443">>,
        !.volumes = << <<"./Caddyfile:/etc/caddy/Caddyfile:ro">>,
                       <<"caddy-data:/data">>,
                       <<"caddy-config:/config">> >>,
        !.depends_on = <<[service |-> a.name,
                          condition |-> "service_healthy"]>>,
        !.networks = <<NetworkName(a)>>]

\* an env-file reference that keeps the local path
file_name_whole(path) == path

\* Path::new(ef).file_name().and_then(|n| n.to_str()).unwrap_or(ef): the last
\* component, or the path itself when it has none (empty, or ending in "..")
file_name(path) ==
    IF path # <<>> /\ path[Len(path)] # ".." THEN <<path[Len(path)]>>
    ELSE path

\* the health-check block of a command
Healthcheck(c) ==
    [test |-> <<"CMD", "sh", "-c", c>>,
     interval |-> "30s",
     timeout |-> "10s",
     retries |-> 3,
     start_period |-> "10s"]

\* a service that gets a health-check block (of the command "true") even when
\* the application declares none
healthcheck_always(a) ==
    IF a.healthcheck = Nothing THEN Some(Healthcheck("true"))
    ELSE Some(Healthcheck(a.healthcheck[1]))

\* app.healthcheck.as_ref().map(|cmd| Healthcheck { .. })
healthcheck(a) ==
    IF a.healthcheck = Nothing THEN Nothing
    ELSE Some(Healthcheck(a.healthcheck[1]))

app_service(a) ==
    [DefaultService EXCEPT
        !.image = <<a.name, ":latest">>,
        !.container_name = <<a.name>>,
        !.restart = Some("unless-stopped"),
        !.expose = [i \in 1..Len(a.expose) |-> ToString(a.expose[i])],
        !.env_file = IF a.env_file = Nothing THEN Nothing
                     ELSE Some(file_name(a.env_file[1])),
        !.environment = [i \in 1..Len(a.env) |->
                            <<a.env[i][1], "=", a.env[i][2]>>],
        !.volumes = [i \in 1..Len(a.volumes) |->
                        <<a.volumes[i][1], ":", a.volumes[i][2]>>],
        !.healthcheck = healthcheck(a),
        !.networks = <<NetworkName(a)>>]

RECURSIVE InsertVolumes(_, _)
InsertVolumes(vols, names) ==
    IF names = <<>> THEN vols
    ELSE InsertVolumes(Insert(vols, Head(names), "local"), Tail(names))

\* a volumes section that registers the proxy volumes only
top_level_volumes_proxy_only(a, c) ==
    InsertVolumes(<<>>, IF c.reverse_proxy # Nothing
                        THEN <<"caddy-data", "caddy-config">>
                        ELSE <<>>)

top_level_volumes(a, c) ==
    InsertVolumes(InsertVolumes(<<>>,
                                [i \in 1..Len(a.volumes) |-> a.volumes[i][1]]),
                  IF c.reverse_proxy # Nothing
                  THEN <<"caddy-data", "caddy-config">>
                  ELSE <<>>)

\* a manifest that also declares a network of its own for the proxy
network_with_proxy(a) ==
    Insert(Insert(<<>>, NetworkName(a), "bridge"),
           <<"caddy", "-network">>, "bridge")

network(a) == Insert(<<>>, NetworkName(a), "bridge")

compose_render(a, c) ==
    [services |->
        Insert(IF c.reverse_proxy # Nothing
               THEN Insert(<<>>, "caddy", caddy_service(a))
               ELSE <<>>,
               a.name, app_service(a)),
     volumes |-> top_level_volumes(a, c),
     networks |-> network(a)]

----------------------------------------------------------------------------
(* The YAML document of a manifest, as serde_yaml writes and reads it: a   *)
(* list of lines, each an indentation and the key (or list item) on it.    *)

YamlLine(indent, key) == [indent |-> indent, key |-> key]

RECURSIVE Flatten(_)
Flatten(seqs) ==
    IF seqs = <<>> THEN <<>> ELSE Head(seqs) \o Flatten(Tail(seqs))

\* a key with a list under it, left out when the list is empty
YamlList(indent, key, items) ==
    IF items = <<>> THEN <<>>
    ELSE <<YamlLine(indent, key)>>
         \o [i \in 1..Len(items) |-> YamlLine(indent + 2, items[i])]

YamlService(svc) ==
    <<YamlLine(4, "image")>>
    \o YamlList(4, "ports", svc.ports)
    \o YamlList(4, "expose", svc.expose)
    \o YamlList(4, "volumes", svc.volumes)
    \o YamlList(4, "depends_on",
                [i \in 1..Len(svc.depends_on) |-> svc.depends_on[i].service])
    \o YamlList(4, "networks", svc.networks)

\* a top-level section: its key, then every entry at indentation 2 with the
\* lines of its body below it
YamlSection(name, bodies) ==
    <<YamlLine(0, name)>>
    \o Flatten([i \in 1..Len(bodies) |->
                  <<YamlLine(2, bodies[i].key)>> \o bodies[i].value])

\* serde_yaml::to_string(&compose)
to_yaml(m) ==
    YamlSection("services",
                [i \in 1..Len(m.services) |->
                    [key |-> m.services[i].key,
                     value |-> YamlService(m.services[i].value)]])
    \o YamlSection("volumes",
                   [i \in 1..Len(m.volumes) |->
                       [key |-> m.volumes[i].key,
                        value |-> <<YamlLine(4, "driver")>>]])
    \o YamlSection("networks",
                   [i \in 1..Len(m.networks) |->
                       [key |-> m.networks[i].key,
                        value |-> <<YamlLine(4, "driver")>>]])

\* the section a line belongs to: the last line at indentation 0 before it
SectionOf(doc, i) ==
    LET heads == { j \in 1..i : doc[j].indent = 0 }
    IN  IF heads = {} THEN ""
        ELSE doc[CHOOSE j \in heads : \A k \in heads : k <= j].key

\* the names serde_yaml::from_str recovers for one section of a document
SectionKeys(doc, name) ==
    LET at == SelectSeq([i \in 1..Len(doc) |-> i],
                        LAMBDA i : doc[i].indent = 2
                                   /\ SectionOf(doc, i) = name)
    IN  [k \in 1..Len(at) |-> doc[at[k]].key]

\* serde_yaml::from_str::<Compose>(&yaml), as far as the names go
from_yaml(doc) ==
    [services |-> SectionKeys(doc, "services"),
     volumes |-> SectionKeys(doc, "volumes"),
     networks |-> SectionKeys(doc, "networks")]

----------------------------------------------------------------------------
(* caddyfile::render (src/caddyfile.rs).  The document is the SiteBlock    *)
(* given to caddyfile_rs::format: its address and its directives in order. *)

\* Directive: name, matcher ("" when none), arguments, sub-directives
Directive(name, matcher, args, block) ==
    [name |-> name, matcher |-> matcher, args |-> args, block |-> block]

AcmePath == "/.well-known/acme-challenge/*"

\* SiteBlock::basic_auth of caddyfile_rs: the named matcher @protected of
\* every path but the ACME challenge path, and the gate on that matcher
SiteBlock_basic_auth(user, hash) ==
    << Directive("@protected", "", <<"not", "path", AcmePath>>, <<>>),
       Directive("basic_auth", "@protected", <<>>,
                 <<Directive(user, "", <<hash>>, <<>>)>>) >>

SiteBlock_reverse_proxy(to) ==
    <<Directive("reverse_proxy", "", <<to>>, <<>>)>>

SiteBlock_encode_gzip == <<Directive("encode", "", <<"gzip">>, <<>>)>>

\* the header block; the values of the last two headers are left open
SiteBlock_security_headers ==
    <<Directive("header", "", <<>>,
        << Directive("X-Content-Type-Options", "", <<"nosniff">>, <<>>),
           Directive("X-Frame-Options", "", <<"DENY">>, <<>>),
           Directive("X-XSS-Protection", "", <<>>, <<>>),
           Directive("Referrer-Policy", "", <<>>, <<>>) >>)>>

\* a renderer that never emits the auth gate
AuthDirectivesNone(c) == <<>>

\* if let Some((user, hash)) = &caddy.basic_auth
AuthDirectives(c) ==
    IF c.basic_auth = Nothing THEN <<>>
    ELSE SiteBlock_basic_auth(c.basic_auth[1][1], c.basic_auth[1][2])

\* if let Some(upstream) = &caddy.reverse_proxy; caddy.routes is not read
ProxyDirectives(c) ==
    IF c.reverse_proxy = Nothing THEN <<>>
    ELSE SiteBlock_reverse_proxy(c.reverse_proxy[1])

caddyfile_render(c, domain) ==
    [address |-> domain,
     directives |->
        AuthDirectives(c)
        \o ProxyDirectives(c)
        \o (IF c.gzip THEN SiteBlock_encode_gzip ELSE <<>>)
        \o (IF c.security_headers THEN SiteBlock_security_headers ELSE <<>>)
        \o [i \in 1..Len(c.extra_directives) |->
               Directive(c.extra_directives[i], "", <<>>, <<>>)]]

\* the two documents as cmd_deploy_dry_run renders them from the descriptors
RenderDocuments ==
    /\ phase = "build"
    /\ manifest' = compose_render(bapp, caddy)
    /\ \E host \in Hosts : caddyfile' = caddyfile_render(caddy, host)
    /\ phase' = "rendered"
    /\ UNCHANGED <<bapp, caddy, mutations, upstream, deployment>>

NextBuild ==
    \/ App_New
    \/ App_build_arg
    \/ App_env
    \/ App_env_file
    \/ App_volume
    \/ App_expose
    \/ App_port
    \/ App_healthcheck
    \/ Caddy_basic_auth
    \/ Caddy_reverse_proxy
    \/ Caddy_gzip
    \/ Caddy_security_headers
    \/ Caddy_route
    \/ Caddy_directive
    \/ Caddy_volume
    \/ ResolveUpstream
    \/ ResolveUpstreamPort
    \/ RenderDocuments

SpecBuild == Init /\ [][NextBuild]_vars

----------------------------------------------------------------------------
(* SshSession::wait_for_ready (src/ssh.rs) and Provisioner::setup_server   *)
(* (src/provision/digitalocean.rs, src/provision/libvirt.rs).              *)

\* a running call of wait_for_ready, on its own or from setup_server
WaitCmd(kind, max_attempts, interval) ==
    [kind |-> kind, max_attempts |-> max_attempts, interval |-> interval]

outside_session == <<config, servers, server, apps, idx, polls, healthySeen,
                     lastPoll, stdout, input, prev>>

\* a loop that makes one attempt more than asked
RangeDoneLate(a, max_attempts) == a > max_attempts + 1

\* for attempt in 1..=max_attempts: the range is used up
RangeDone(a, max_attempts) == a > max_attempts

SshSession_wait_for_ready ==
    /\ Idle /\ cmd = NoCmd
    /\ \E n \in 0..MaxTries, interval \in {1, SETUP_INTERVAL} :
          cmd' = WaitCmd("wait_for_ready", n, interval)
    /\ pc' = "for_attempt"
    /\ attempt' = 1
    /\ UNCHANGED <<calls, result, slept, outside_session>>

\* ssh.wait_for_ready(30, Duration::from_secs(10))?
Provisioner_setup_server ==
    /\ Idle /\ cmd = NoCmd
    /\ cmd' = WaitCmd("setup_server", SETUP_ATTEMPTS, SETUP_INTERVAL)
    /\ pc' = "for_attempt"
    /\ attempt' = 1
    /\ UNCHANGED <<calls, result, slept, outside_session>>

\* wait_for_ready returns: on its own the result is the caller's; inside
\* setup_server the `?` returns the error and goes on after Ok
WaitReturn(res) ==
    IF cmd.kind = "setup_server" /\ res = Ok
    THEN pc' = "run_setup_script" /\ UNCHANGED result
    ELSE Return(res)

\* the head of the loop and self.exec("echo ok").is_ok(): which error the
\* attempt failed with is dropped, so one failure stands for all
WaitForReadyAttempt ==
    /\ pc = "for_attempt"
    /\ IF RangeDone(attempt, cmd.max_attempts)
       THEN /\ WaitReturn(Err("SshFailed", "SSH not ready", cmd.max_attempts))
            /\ UNCHANGED calls
       ELSE \E o \in {"ok", "CommandFailed"} :
              /\ calls' = Append(calls, Call("exec", "echo ok", o))
              /\ IF o = "ok" THEN WaitReturn(Ok)
                 ELSE pc' = "sleep" /\ UNCHANGED result
    /\ UNCHANGED <<cmd, attempt, slept, outside_session>>

\* thread::sleep(interval), then the next attempt
WaitForReadySleep ==
    /\ pc = "sleep"
    /\ slept' = slept + cmd.interval
    /\ attempt' = attempt + 1
    /\ pc' = "for_attempt"
    /\ UNCHANGED <<cmd, calls, result, outside_session>>

\* Self::run_setup_script(&ssh, domain_str, remote_dir)?
SetupRunSetupScript ==
    /\ pc = "run_setup_script"
    /\ \E o \in Outcomes :
          /\ calls' = Append(calls, Call("run_setup_script", "/opt/app", o))
          /\ Try(o, "setup_ssh_config")
    /\ UNCHANGED <<cmd, attempt, slept, outside_session>>

\* setup_ssh_config(&server.ip, host_alias, &server.ssh_key_file)?, then
\* the summary is printed and setup_server returns Ok(())
SetupSshConfig ==
    /\ pc = "setup_ssh_config"
    /\ \E o \in {"ok", "EnvMissing", "Io"} :
          /\ calls' = Append(calls, Call("setup_ssh_config", "", o))
          /\ Return(IF o = "ok" THEN Ok ELSE Err(o, "", 0))
    /\ UNCHANGED <<cmd, attempt, slept, outside_session>>

SetupStep ==
    \/ WaitForReadyAttempt
    \/ WaitForReadySleep
    \/ SetupRunSetupScript
    \/ SetupSshConfig

NextSetup ==
    \/ SshSession_wait_for_ready
    \/ Provisioner_setup_server
    \/ WaitForReadyAttempt
    \/ WaitForReadySleep
    \/ SetupRunSetupScript
    \/ SetupSshConfig

\* a call that has started keeps running: the function is sequential code
\* whose every step (ssh exec, sleep, script) returns
SpecSetup == Init /\ [][NextSetup]_vars /\ WF_vars(SetupStep)

----------------------------------------------------------------------------
(* Specifications *)

Next ==
    \/ Pipeline_new
    \/ Pipeline_provision
    \/ Pipeline_dns
    \/ Pipeline_deploy
    \/ RunProvision
    \/ ProvisionCheckPrerequisites
    \/ ProvisionGetServer
    \/ ProvisionDetectSshKey
    \/ ProvisionCreateServer
    \/ ProvisionUpsertARecord
    \/ ProvisionSetupServer
    \/ RunDestroy
    \/ DestroyConfirm
    \/ DestroyServer
    \/ DestroyDeleteARecord
    \/ RunDeploy
    \/ DeployDryRun
    \/ DeployNoDeployer
    \/ DeployBuildImage
    \/ DeployTransferImage
    \/ RunDeployerDeploy
    \/ DeployCheckEnvFiles
    \/ DeployWriteCompose
    \/ DeployWriteCaddyfile
    \/ DeployScpEnvFile
    \/ DeployChmodEnvFile
    \/ DeployRestart
    \/ WaitHealthyNoHealthcheck
    \/ WaitHealthyStart
    \/ WaitHealthyPoll
    \/ DeployStatus
    \/ RunStatus
    \/ CmdStatus

Spec == Init /\ [][Next]_vars

TypeOK ==
    /\ pc \in {"idle", "check_prerequisites", "get_server", "detect_ssh_key",
               "create_server", "upsert_a_record", "setup_server", "confirm",
               "destroy_server", "delete_a_record", "cmd_deploy",
               "transfer_image", "deploy", "write_compose",
               "write_caddyfile", "scp_to", "chmod", "restart",
               "wait_healthy", "poll", "status", "cmd_status"}
    /\ attempt \in 0..MAX_ATTEMPTS
    /\ polls \in 0..MAX_ATTEMPTS

----------------------------------------------------------------------------
(* Properties *)

Last(log) == log[Len(log)]

\* the lines that are the word yes with nothing but white space around it
YesLine(l) ==
    \E i \in 1..Len(l) :
        /\ i + 2 <= Len(l)
        /\ SubSeq(l, i, i + 2) = Yes
        /\ \A j \in 1..Len(l) : j \notin i..(i + 2) => l[j] \in Whitespace

\* C1: cmd_destroy calls destroy_server and delete_a_record only after it
\* read from standard input a line that is "yes" (white space around it
\* stripped), whatever the name and the domain given; on any other line it
\* returns Ok with no call made, and a failed read returns the error with no
\* call made.
C1_DestroyOnlyAfterYes ==
    cmd.kind = "destroy" =>
        /\ (calls # <<>> \/ pc \in {"destroy_server", "delete_a_record"})
              => input.state = "line" /\ YesLine(input.line)
        /\ (input.state = "line" /\ ~YesLine(input.line))
              => pc = "idle" /\ result = Ok /\ calls = <<>>
        /\ input.state = "error"
              => pc = "idle" /\ result.tag = "Io" /\ calls = <<>>
        /\ \A i \in 1..Len(calls) :
              calls[i].op \in {"destroy_server", "delete_a_record"}

C1_Witness ==
    /\ cmd.kind = "destroy" /\ cmd.domain # None
    /\ pc = "idle" /\ result = Ok
    /\ Ops(calls) = <<"destroy_server", "delete_a_record">>
    /\ input.line = <<" ", "y", "e", "s", " ", "\n">>

\* C2: when get_server reports an existing server, cmd_provision returns Ok
\* at once: no create_server, upsert_a_record or setup_server call follows.
\* So of two consecutive provision commands with the same server name, the
\* first of which created the server, the second makes no create_server
\* call, and no command makes more than one: one creation in total.
C2_ProvisionIdempotent ==
    cmd.kind = "provision" =>
        /\ \A i \in 1..Len(calls) :
              (calls[i].op = "get_server" /\ calls[i].res = "some")
                  => /\ i = Len(calls)
                     /\ pc = "idle"
                     /\ result = Ok
        /\ Count(calls, "create_server") <= 1
        /\ (prev.kind = "provision" /\ prev.created /\ prev.name = cmd.name)
              => /\ Count(calls, "create_server") = 0
                 /\ Count(calls, "upsert_a_record") = 0
                 /\ Count(calls, "setup_server") = 0

C2_Witness ==
    /\ cmd.kind = "provision"
    /\ prev.kind = "provision" /\ prev.created /\ prev.name = cmd.name
    /\ pc = "idle" /\ result = Ok
    /\ Ops(calls) = <<"check_prerequisites", "get_server">>
    /\ Last(calls).res = "some"

\* C3: in a provision run that creates a server with a DNS provider and a
\* domain configured, setup_server starts only after upsert_a_record has
\* returned Ok, and that upsert directly follows the successful
\* create_server and carries the address create_server returned.  Without
\* a DNS provider or without a domain no DNS call is made and setup_server
\* directly follows the successful create_server.
WithDns == dns /\ cmd.domain # None

UpsertedAfterCreate(i) ==
    /\ i > 1
    /\ calls[i - 1].op = "create_server"
    /\ calls[i - 1].res = "ok"
    /\ calls[i].arg = calls[i - 1].ret
    /\ calls[i].arg \in Ips

SetupAfter(i, op) ==
    /\ i > 1
    /\ calls[i - 1].op = op
    /\ calls[i - 1].res = "ok"

C3_DnsBeforeSetup ==
    cmd.kind = "provision" =>
        /\ \A i \in 1..Len(calls) :
              /\ calls[i].op = "upsert_a_record"
                    => WithDns /\ UpsertedAfterCreate(i)
              /\ calls[i].op = "setup_server"
                    => SetupAfter(i, IF WithDns THEN "upsert_a_record"
                                     ELSE "create_server")
        /\ pc = "setup_server"
              => SetupAfter(Len(calls) + 1, IF WithDns THEN "upsert_a_record"
                                            ELSE "create_server")
        /\ pc = "upsert_a_record" => WithDns

C3_Witness ==
    /\ cmd.kind = "provision" /\ WithDns
    /\ pc = "idle" /\ result = Ok
    /\ Len(calls) = 6
    /\ SubSeq(Ops(calls), 4, 6) =
          <<"create_server", "upsert_a_record", "setup_server">>
    /\ calls[5].arg = calls[4].ret

DeployKinds == {"deploy", "deployer_deploy"}

\* the operations that act on the remote host
RemoteOps == {"rsync", "docker_load", "write_remote_file", "scp_to", "chmod",
              "restart", "docker_compose_ps"}

\* C4 (as claimed): a non-dry-run deploy that fails because an env file is
\* missing has, at that point, transferred no image, written no remote file,
\* copied no file and run no remote command.
C4_EnvFilesBeforeRemote ==
    (cmd.kind = "deploy" /\ ~cmd.dry_run /\ pc = "idle"
        /\ result.tag = "FileNotFound")
        => \A i \in 1..Len(calls) : calls[i].op \notin RemoteOps

\* the health-checked applications, read off the descriptors
HealthChecked == { i \in 1..Len(apps) : apps[i].healthcheck }

\* the gate has come to application i and is not polling it now
GateLeft(i) ==
    /\ attempt >= 1
    /\ idx >= i
    /\ ~(pc = "poll" /\ idx = i)

TimedOutOn(i) ==
    /\ pc = "idle"
    /\ idx = i
    /\ polls = MAX_ATTEMPTS
    /\ result = Err("HealthcheckTimeout", apps[i].name, MAX_ATTEMPTS)
    /\ Count(calls, "docker_compose_ps") = 0
    /\ Last(calls).op = "wait_healthy"

\* C5: a health-checked application that never answers "healthy" is polled
\* exactly MAX_ATTEMPTS = 30 times, never more, and the gate then returns
\* HealthcheckTimeout with that application's name and the count 30; the
\* deploy returns that failure, without the status step.
C5_TimeoutAfterMaxAttempts ==
    cmd.kind \in DeployKinds =>
        /\ polls <= MAX_ATTEMPTS
        /\ \A i \in HealthChecked :
              (GateLeft(i) /\ ~healthySeen[i]) => TimedOutOn(i)
        /\ result.tag = "HealthcheckTimeout"
              => /\ idx \in HealthChecked
                 /\ ~healthySeen[idx]
                 /\ TimedOutOn(idx)

C5_Witness ==
    /\ cmd.kind = "deploy"
    /\ app.healthcheck
    /\ TimedOutOn(1)
    /\ ~healthySeen[1]
    /\ lastPoll = "other"

GateReturnedOk ==
    \E i \in 1..Len(calls) :
        calls[i].op = "wait_healthy" /\ calls[i].res = "ok"

\* C6: with a health-checked application, wait_healthy returns Ok only when
\* every health-checked application answered "healthy" on one of its at
\* most 30 polls; healthy on the 30th poll is success; a poll that fails in
\* the remote session uses up one attempt, it neither ends the gate nor
\* counts as healthy; no application is polled more than 30 times.
C6_OkOnlyWhenAllHealthy ==
    cmd.kind \in DeployKinds =>
        /\ (GateReturnedOk /\ HealthChecked # {})
              => \A i \in HealthChecked : healthySeen[i]
        /\ result.tag = "HealthcheckTimeout" => ~healthySeen[idx]
        /\ polls <= MAX_ATTEMPTS /\ attempt <= MAX_ATTEMPTS
        /\ (pc = "poll" /\ attempt > 1) => polls = attempt - 1
        /\ lastPoll \in {"error", "other"}
              => \/ pc = "poll" /\ attempt > 1 /\ ~healthySeen[idx]
                 \/ TimedOutOn(idx)

C6_Witness ==
    /\ cmd.kind = "deployer_deploy"
    /\ Len(apps) = 2
    /\ HealthChecked = {1, 2}
    /\ pc = "status"
    /\ polls = MAX_ATTEMPTS
    /\ attempt = MAX_ATTEMPTS
    /\ lastPoll = "healthy"
    /\ healthySeen[1] /\ healthySeen[2]

\* C7: when no application declares a health check, wait_healthy sleeps the
\* grace period and returns Ok without a single status poll.
C7_NoHealthcheckNoPoll ==
    (cmd.kind \in DeployKinds /\ HealthChecked = {}) =>
        /\ pc # "poll"
        /\ polls = 0
        /\ lastPoll = "none"
        /\ result.tag # "HealthcheckTimeout"
        /\ pc = "status"
              => /\ slept = GRACE
                 /\ Last(calls) = Call("wait_healthy", "", "ok")
        /\ pc # "status" /\ Count(calls, "wait_healthy") = 0 => slept = 0

C7_Witness ==
    /\ cmd.kind = "deployer_deploy"
    /\ Len(apps) = 2
    /\ HealthChecked = {}
    /\ pc = "status"
    /\ slept = GRACE
    /\ polls = 0

\* C8: cmd_deploy with dry_run set prints both documents and returns Ok
\* with no collaborator call at all (no build_image, transfer_image, deploy,
\* no remote session), whatever skip_build is and with or without a
\* deployer.
C8_DryRunNoMutation ==
    (cmd.kind = "deploy" /\ cmd.dry_run) =>
        /\ calls = <<>>
        /\ pc \in {"cmd_deploy", "idle"}
        /\ pc = "idle"
              => /\ result = Ok
                 /\ stdout = <<"docker-compose.yml", "Caddyfile">>

C8_Witness ==
    /\ cmd.kind = "deploy" /\ cmd.dry_run /\ ~cmd.skip_build
    /\ ~deployer
    /\ pc = "idle" /\ result = Ok
    /\ stdout = <<"docker-compose.yml", "Caddyfile">>

\* a logged call that failed
Failure(c) == c.res \notin {"ok", "some", "none"}

\* C9: in provision and deploy a failed collaborator call is the last call
\* of the command, and the command returns that very failure: nothing runs
\* after a failed check_prerequisites, get_server, create_server,
\* upsert_a_record, build_image, transfer_image, remote write, copy or
\* restart.
C9_FailurePropagates ==
    cmd.kind \in {"provision"} \cup DeployKinds =>
        /\ \A i \in 1..Len(calls) : Failure(calls[i]) => i = Len(calls)
        /\ (calls # <<>> /\ Failure(Last(calls)))
              => pc = "idle" /\ result.tag = Last(calls).res
        /\ (pc = "idle" /\ calls # <<>> /\ ~Failure(Last(calls)))
              => result = Ok

C9_Witness ==
    /\ cmd.kind = "provision"
    /\ pc = "idle"
    /\ Len(calls) = 5
    /\ Last(calls).op = "upsert_a_record"
    /\ Last(calls).res = "SshFailed"
    /\ result.tag = "SshFailed"

RECURSIVE EnvOps(_)
EnvOps(slice) ==
    IF slice = <<>> THEN <<>>
    ELSE (IF Head(slice).env_file # None THEN <<"scp_to", "chmod">>
          ELSE <<>>) \o EnvOps(Tail(slice))

RolloutOps(slice) ==
    <<"write_remote_file", "write_remote_file">> \o EnvOps(slice)
        \o <<"restart", "wait_healthy", "docker_compose_ps">>

\* the steps of a command without the local env-file check
Steps(log) == SelectSeq(Ops(log), LAMBDA o : o # "check_env_files")

Args(log, op) ==
    LET sel == SelectSeq(log, LAMBDA c : c.op = op)
    IN [i \in 1..Len(sel) |-> sel[i].arg]

\* C10: a successful non-dry-run deploy ran, each step after the previous
\* one returned Ok: build_image (left out exactly when skip_build is set),
\* the transfer of the image, the write of docker-compose.yml, the write of
\* the Caddyfile, the env files, the restart of the stack, the health gate,
\* the status; the health gate is entered only right after a restart that
\* returned Ok.
C10_DeployOrder ==
    /\ (cmd.kind = "deploy" /\ ~cmd.dry_run /\ pc = "idle" /\ result = Ok)
          => /\ Steps(calls) =
                  (IF cmd.skip_build THEN <<>> ELSE <<"build_image">>)
                      \o <<"docker_image_inspect", "docker_save", "rsync",
                           "docker_load">>
                      \o RolloutOps(<<app>>)
             /\ Args(calls, "build_image") =
                  (IF cmd.skip_build THEN <<>> ELSE <<app.name>>)
             /\ Args(calls, "rsync") = <<app.name>>
             /\ Args(calls, "write_remote_file") =
                  <<"docker-compose.yml", "Caddyfile">>
             /\ \A i \in 1..Len(calls) : calls[i].res = "ok"
    /\ (cmd.kind = "deployer_deploy" /\ pc = "idle" /\ result = Ok)
          => /\ Steps(calls) = RolloutOps(apps)
             /\ \A i \in 1..Len(calls) : calls[i].res = "ok"
    /\ (cmd.kind \in DeployKinds /\ pc \in {"wait_healthy", "poll"})
          => /\ Last(calls).op = "restart"
             /\ Last(calls).res = "ok"
    /\ (cmd.kind \in DeployKinds /\ (attempt > 0 \/ slept > 0))
          => Count(calls, "restart") = 1

C10_Witness ==
    /\ cmd.kind = "deploy" /\ ~cmd.dry_run /\ ~cmd.skip_build
    /\ app.env_file # None /\ app.healthcheck
    /\ pc = "idle" /\ result = Ok
    /\ Len(calls) = 13

\* C11: in a destroy command destroy_server is the first call; the DNS record
\* is removed only after destroy_server succeeded, and only when a domain was
\* given and a DNS provider is configured (then it is removed before the
\* command returns Ok); a failing destroy_server ends the command with its
\* error and no delete_a_record call; without a domain no DNS call is made.
C11_DestroyThenDns ==
    cmd.kind = "destroy" =>
        /\ calls # <<>> => calls[1].op = "destroy_server"
        /\ \A i \in 1..Len(calls) :
              calls[i].op = "delete_a_record" =>
                  /\ i = 2
                  /\ calls[1].res = "ok"
                  /\ cmd.domain # None /\ dns
        /\ (calls # <<>> /\ calls[1].res # "ok") =>
              /\ Len(calls) = 1
              /\ pc = "idle" /\ result.tag = calls[1].res
        /\ (pc = "idle" /\ result = Ok /\ calls # <<>>) =>
              (Count(calls, "delete_a_record") = 1
                  <=> (cmd.domain # None /\ dns))

C11_Witness ==
    /\ cmd.kind = "destroy" /\ cmd.domain # None /\ dns
    /\ input.state = "line" /\ Confirmed(input.line)
    /\ pc = "idle" /\ result.tag = "CommandFailed"
    /\ Ops(calls) = <<"destroy_server">>


----------------------------------------------------------------------------
(* Properties of the descriptors and the rendered documents (SpecBuild) *)

Range(f) == { f[i] : i \in DOMAIN f }

Rendered == phase = "rendered"

ProxyPresent == "caddy" \in Range(Keys(manifest.services))

ProxyVolumes == {"caddy-data", "caddy-config"}

\* C12: the rendered manifest contains the proxy service, with its published
\* ports 80 and 443, its depends_on edges and the two volumes caddy-data and
\* caddy-config, exactly when has_upstreams() holds of the proxy descriptor
\* (a default upstream is set or there is a route); otherwise it has no proxy
\* service, no published proxy ports, no proxy volumes and no dependency edge.
C12_ProxyIffHasUpstreams ==
    Rendered =>
        /\ ProxyPresent <=> has_upstreams(caddy)
        /\ ProxyPresent =>
              /\ Get(manifest.services, "caddy").ports = <<"80:80", "443:443">>
              /\ Get(manifest.services, "caddy").depends_on # <<>>
              /\ ProxyVolumes \subseteq Range(Keys(manifest.volumes))
        /\ ~ProxyPresent =>
              /\ ProxyVolumes \cap Range(Keys(manifest.volumes)) = {}
              /\ \A i \in 1..Len(manifest.services) :
                    /\ manifest.services[i].value.depends_on = <<>>
                    /\ manifest.services[i].value.ports = <<>>


\* the directives of a document: those of the site and those of their blocks
AllDirectives(ds) == Range(ds) \cup UNION { Range(d.block) : d \in Range(ds) }

Handles == SelectSeq(caddyfile.directives, LAMBDA d : d.name = "handle")

Mentions(u) ==
    \E d \in AllDirectives(caddyfile.directives) : u \in Range(d.args)

RouteUpstreams == { caddy.routes[i][2] : i \in 1..Len(caddy.routes) }

\* C13: with a non-empty route list the rendered proxy config has one handle
\* block per route, no reverse_proxy directive outside the handle blocks, and
\* the default upstream (when it is not also the upstream of a route) is
\* mentioned nowhere; with no route and a default upstream it has exactly one
\* reverse_proxy directive, unscoped and to that upstream, and no handle block.
C13_RoutesOverrideDefault ==
    Rendered =>
        /\ caddy.routes # <<>> =>
              /\ Len(Handles) = Len(caddy.routes)
              /\ \A i \in 1..Len(caddyfile.directives) :
                    caddyfile.directives[i].name # "reverse_proxy"
              /\ \A u \in Range(caddy.reverse_proxy) \ RouteUpstreams :
                    ~Mentions(u)
        /\ (caddy.routes = <<>> /\ caddy.reverse_proxy # Nothing) =>
              /\ Handles = <<>>
              /\ SelectSeq(caddyfile.directives,
                           LAMBDA d : d.name = "reverse_proxy")
                   = <<Directive("reverse_proxy", "",
                                 <<caddy.reverse_proxy[1]>>, <<>>)>>

\* C14: the handle blocks of the rendered proxy config are the routes in
\* declaration order: the block of a route with an empty pattern has no path
\* matcher wherever the route stands, the block of a route with a pattern is
\* scoped to exactly that pattern, and each block proxies to its route's
\* upstream.
C14_RoutesInOrder ==
    Rendered =>
        /\ Len(Handles) = Len(caddy.routes)
        /\ \A i \in 1..Len(caddy.routes) :
              i <= Len(Handles) =>
                  /\ Handles[i].matcher = caddy.routes[i][1]
                  /\ Handles[i].args = <<>>
                  /\ Handles[i].block =
                        <<Directive("reverse_proxy", "",
                                    <<caddy.routes[i][2]>>, <<>>)>>


Named(n) == SelectSeq(caddyfile.directives, LAMBDA d : d.name = n)

\* C15: when basic auth is set on the proxy descriptor the rendered proxy
\* config has one auth gate, bound to the matcher @protected, that checks the
\* configured user against the configured password hash, and @protected is
\* defined as every path but /.well-known/acme-challenge/*; when basic auth
\* is not set the config has no auth directive and no such matcher.
C15_AuthGateExcludesAcme ==
    Rendered =>
        /\ caddy.basic_auth # Nothing =>
              /\ Named("@protected") =
                    <<Directive("@protected", "",
                                <<"not", "path",
                                  "/.well-known/acme-challenge/*">>, <<>>)>>
              /\ Named("basic_auth") =
                    <<Directive("basic_auth", "@protected", <<>>,
                                <<Directive(caddy.basic_auth[1][1], "",
                                            <<caddy.basic_auth[1][2]>>,
                                            <<>>)>>)>>
        /\ caddy.basic_auth = Nothing =>
              /\ Named("basic_auth") = <<>>
              /\ Named("@protected") = <<>>

C15_Witness ==
    /\ Rendered
    /\ caddy.basic_auth = Some(<<"ops", "$2a$14$other">>)
    /\ caddy.reverse_proxy # Nothing
    /\ Len(Named("basic_auth")) = 1


Exposes(a, port) == \E i \in 1..Len(a.expose) : a.expose[i] = port

\* C16: upstream resolution never defaults.  App::upstream() panics when no
\* port is exposed and otherwise returns (name, first exposed port);
\* App::upstream_port(p) panics exactly when p was never exposed and otherwise
\* returns (name, p).  A panic ends the program.
C16_UpstreamPartial ==
    /\ upstream.call = "upstream" =>
          IF bapp.expose = <<>>
          THEN upstream.out.state = "panic" /\ phase = "panic"
          ELSE upstream.out = [state |-> "ok", name |-> bapp.name,
                               port |-> bapp.expose[1]]
    /\ upstream.call = "upstream_port" =>
          IF Exposes(bapp, upstream.arg)
          THEN upstream.out = [state |-> "ok", name |-> bapp.name,
                               port |-> upstream.arg]
          ELSE upstream.out.state = "panic" /\ phase = "panic"
    /\ phase = "panic" <=> upstream.out.state = "panic"

C16_Witness ==
    /\ upstream.call = "upstream_port"
    /\ upstream.arg = 3000
    /\ bapp.expose = <<8000>>
    /\ phase = "panic"


\* the arguments of the calls of one mutator, in call order
CallsOf(on, op) ==
    LET sel == SelectSeq(mutations, LAMBDA m : m.on = on /\ m.op = op)
    IN  [i \in 1..Len(sel) |-> sel[i].arg]

Firsts(args) == [i \in 1..Len(args) |-> args[i][1]]

\* the value of a single-valued field: the argument of the last call
LastOf(args, unset) ==
    IF args = <<>> THEN unset ELSE Some(args[Len(args)][1])

\* C17: after any sequence of builder calls every list-valued field is the
\* sequence of the arguments of its mutator in call order (nothing dropped,
\* deduplicated or reordered) and every single-valued field is the argument
\* of the last call of its mutator, unset (or the default) if it was never
\* called; so no mutator changes a field other than its own.
C17_BuilderFields ==
    phase # "start" =>
        /\ bapp.name \in BuildNames
        /\ bapp.build_args = CallsOf("App", "build_arg")
        /\ bapp.env = CallsOf("App", "env")
        /\ bapp.volumes = CallsOf("App", "volume")
        /\ bapp.expose = Firsts(CallsOf("App", "expose"))
        /\ bapp.ports = CallsOf("App", "port")
        /\ bapp.env_file = LastOf(CallsOf("App", "env_file"), Nothing)
        /\ bapp.healthcheck = LastOf(CallsOf("App", "healthcheck"), Nothing)
        /\ bapp.context = Nothing
        /\ bapp.dockerfile = "Dockerfile"
        /\ bapp.platform = "linux/amd64"
        /\ caddy.routes = CallsOf("Caddy", "route")
        /\ caddy.extra_directives = Firsts(CallsOf("Caddy", "directive"))
        /\ caddy.volumes = CallsOf("Caddy", "volume")
        /\ caddy.basic_auth =
              (IF CallsOf("Caddy", "basic_auth") = <<>> THEN Nothing
               ELSE Some(Last(CallsOf("Caddy", "basic_auth"))))
        /\ caddy.reverse_proxy =
              LastOf(CallsOf("Caddy", "reverse_proxy"), Nothing)
        /\ caddy.gzip = (CallsOf("Caddy", "gzip") # <<>>)
        /\ caddy.security_headers =
              (CallsOf("Caddy", "security_headers") # <<>>)

C17_Witness ==
    /\ CallsOf("App", "env_file") =
          << <<<<"deploy", "vps", ".env">>>>, <<<<".env">>>> >>
    /\ CallsOf("App", "expose") = << <<3000>> >>
    /\ phase = "rendered"


EnvFileCalls == Firsts(CallsOf("App", "env_file"))

EnvFileRefs ==
    { manifest.services[i].value.env_file :
        i \in 1..Len(manifest.services) } \ {Nothing}

\* C18: when env_file was called on the application, the last time with the
\* local path b, the rendered manifest has exactly one env-file reference,
\* in the service of the application, and it is the final component of b
\* alone: no path of an earlier call and no directory of b is in it.  Without
\* an env_file call the manifest has no env-file reference.
C18_EnvFileBasename ==
    Rendered =>
        IF EnvFileCalls = <<>> THEN EnvFileRefs = {}
        ELSE LET b == Last(EnvFileCalls)
             IN  /\ EnvFileRefs = { Some(<<b[Len(b)]>>) }
                 /\ Get(manifest.services, bapp.name).env_file
                        = Some(<<b[Len(b)]>>)

C18_Witness ==
    /\ Rendered
    /\ EnvFileCalls = << <<"deploy", ".env.api">>, <<"deploy", "vps", ".env">> >>
    /\ EnvFileRefs = { Some(<<".env">>) }


AppServices == SelectSeq(Keys(manifest.services), LAMBDA k : k # "caddy")

AppService == Get(manifest.services, bapp.name)

HealthcheckCalls == Firsts(CallsOf("App", "healthcheck"))

\* C21: the service of the application has a health-check block exactly when
\* the application declared a health-check command; the block then runs the
\* declared command (CMD sh -c <command>) with interval 30s, timeout 10s,
\* 3 retries and start period 10s.
C21_HealthcheckBlock ==
    Rendered =>
        IF HealthcheckCalls = <<>>
        THEN AppService.healthcheck = <<>>
        ELSE AppService.healthcheck =
                <<[test |-> <<"CMD", "sh", "-c", Last(HealthcheckCalls)>>,
                   interval |-> "30s",
                   timeout |-> "10s",
                   retries |-> 3,
                   start_period |-> "10s"]>>

C21_Witness ==
    /\ Rendered
    /\ HealthcheckCalls # <<>>
    /\ AppService.healthcheck # <<>>
    /\ AppService.healthcheck[1].retries = 3


\* the sources among CaddyVolumes that start with "./" or "/"
BindSources == {"./web-static"}

AppVolumeNames == { bapp.volumes[i][1] : i \in 1..Len(bapp.volumes) }

NamedProxyVolumes ==
    { caddy.volumes[i][1] : i \in 1..Len(caddy.volumes) } \ BindSources

\* C22: the top-level volumes of the manifest are exactly the volume names the
\* application declares, caddy-data and caddy-config when and only when the
\* proxy service is present, and the sources of the custom proxy volumes that
\* are not bind mounts; a bind mount (source starting with "./" or "/") is
\* never a top-level volume, and every custom proxy volume, bind or named, is
\* among the mounts of the proxy service.
C22_TopLevelVolumes ==
    Rendered =>
        /\ Range(Keys(manifest.volumes)) \cap BindSources = {}
        /\ ProxyPresent =>
              /\ Range(Keys(manifest.volumes)) =
                    AppVolumeNames \cup ProxyVolumes \cup NamedProxyVolumes
              /\ \A i \in 1..Len(caddy.volumes) :
                    <<caddy.volumes[i][1], ":", caddy.volumes[i][2]>>
                        \in Range(Get(manifest.services, "caddy").volumes)
        /\ ~ProxyPresent =>
              /\ AppVolumeNames \subseteq Range(Keys(manifest.volumes))
              /\ Range(Keys(manifest.volumes)) \cap ProxyVolumes = {}


\* ".env.<name>" for the application names of the model
DotEnv(name) ==
    CASE name = "api" -> ".env.api"
      [] name = "web" -> ".env.web"
      [] name = "worker" -> ".env.worker"

WithEnvFile(slice) == SelectSeq(slice, LAMBDA a : a.env_file # None)

\* C23: Deployer::deploy copies the env file of each application that declares
\* one, in order, to .env.<name> in the remote directory when more than one
\* application is deployed and to the bare .env when exactly one is; with
\* several applications no two copies go to the same remote path, and an
\* application without an env file causes no copy.
C23_RemoteEnvNames ==
    cmd.kind \in DeployKinds =>
        LET copied == Args(calls, "scp_to")
            due == WithEnvFile(apps)
        IN  /\ Len(copied) <= Len(due)
            /\ \A i \in 1..Len(copied) :
                  copied[i] = IF Len(apps) > 1 THEN DotEnv(due[i].name)
                              ELSE ".env"
            /\ Len(apps) > 1 =>
                  \A i, j \in 1..Len(copied) : copied[i] = copied[j] => i = j
            /\ (pc = "idle" /\ result = Ok /\ Count(calls, "restart") = 1)
                  => Len(copied) = Len(due)

C23_Witness ==
    /\ cmd.kind = "deployer_deploy"
    /\ pc = "idle" /\ result = Ok
    /\ Len(apps) = 2
    /\ Args(calls, "scp_to") = <<".env.api", ".env.web">>


\* C24: the application is rendered as a service with the image <name>:latest
\* and a restart policy, its exposed ports under expose only, never under
\* ports, and every declared (host, container) pair under ports as
\* "host:container" in declaration order; without a port mapping the ports
\* list is empty.
C24_AppServicePorts ==
    Rendered =>
        /\ AppService.image = <<bapp.name, ":latest">>
        /\ AppService.restart # Nothing
        /\ AppService.expose =
              [i \in 1..Len(bapp.expose) |-> ToString(bapp.expose[i])]
        /\ AppService.ports =
              [i \in 1..Len(bapp.ports) |->
                  <<ToString(bapp.ports[i][1]), ":",
                    ToString(bapp.ports[i][2])>>]


Parsed == from_yaml(to_yaml(manifest))

RestartRuns ==
    { calls[i].arg : i \in { k \in 1..Len(calls) :
                               calls[k].op = "restart" /\ calls[k].arg # <<>> } }

\* C27: whenever the restart line has run on the remote host, docker compose
\* up -d was executed last whatever the teardown did, the result of the step
\* is Ok exactly when the bring-up succeeded and CommandFailed otherwise, and
\* after a successful bring-up the deploy goes on to wait_healthy.
C27_TeardownTolerated ==
    \A i \in 1..Len(calls) :
        (calls[i].op = "restart" /\ calls[i].arg # <<>>)
            => LET run == calls[i].arg
               IN  /\ Last(run).cmd = "up"
                   /\ Len(SelectSeq(run, LAMBDA r : r.cmd = "up")) = 1
                   /\ calls[i].res = "ok" <=> Last(run).ok
                   /\ calls[i].res \in {"ok", "CommandFailed"}
                   /\ (i = Len(calls) /\ pc \in {"wait_healthy", "poll"})
                         => Last(run).ok
                   /\ (i = Len(calls) /\ ~Last(run).ok)
                         => pc = "idle" /\ result.tag = "CommandFailed"

C27_Witness ==
    /\ cmd.kind \in DeployKinds /\ pc = "idle" /\ result = Ok
    /\ \E run \in RestartRuns :
          /\ Ran("down", FALSE) \in Range(run)
          /\ Ran("up", TRUE) \in Range(run)


\* Path::new(ef): the components of the local env-file paths
Components(path) ==
    CASE path = "deploy/.env.api" -> <<"deploy", ".env.api">>
      [] path = "deploy/.env.web" -> <<"deploy", ".env.web">>
      [] path = "deploy/.env.worker" -> <<"deploy", ".env.worker">>

\* the env_file entry app_service renders for an application
ManifestEnvFile(a) == file_name(Components(a.env_file))[1]

\* C28: every env file that deploy copies to the remote directory is copied
\* under the name that the env_file entry of its application has in the
\* rendered manifest, with one application and with several.
C28_EnvFileFound ==
    cmd.kind \in DeployKinds =>
        LET copied == Args(calls, "scp_to")
            due == WithEnvFile(apps)
        IN  \A i \in 1..Len(copied) :
                i <= Len(due) => copied[i] = ManifestEnvFile(due[i])


\* C29: in a rendered manifest with the proxy service, every service that
\* the proxy depends on with the condition service_healthy is a service of the
\* manifest that has a health-check block.
C29_HealthyDependencyHasCheck ==
    (Rendered /\ ProxyPresent) =>
        LET deps == Get(manifest.services, "caddy").depends_on
        IN  \A i \in 1..Len(deps) :
                deps[i].condition = "service_healthy"
                    => /\ deps[i].service \in Range(Keys(manifest.services))
                       /\ Get(manifest.services, deps[i].service).healthcheck
                              # Nothing


Waiting == cmd # NoCmd /\ cmd.kind \in {"wait_for_ready", "setup_server"}

Execs == SelectSeq(calls, LAMBDA c : c.op = "exec")

WaitOver == Waiting /\ pc \notin {"for_attempt", "sleep"}

\* the error of wait_for_ready itself
NotReady == result.tag = "SshFailed" /\ result.info = "SSH not ready"

\* what holds in every state of a call of wait_for_ready or setup_server
C30_Safety ==
    Waiting =>
        /\ Len(Execs) <= cmd.max_attempts
        /\ \A i \in 1..Len(Execs) : Execs[i].res = "ok" => i = Len(Execs)
        /\ (pc = "idle" /\ NotReady)
              => /\ Len(Execs) = cmd.max_attempts
                 /\ \A i \in 1..Len(Execs) : Execs[i].res # "ok"
                 /\ Len(calls) = Len(Execs)
        /\ (WaitOver /\ Len(Execs) = cmd.max_attempts
                /\ \A i \in 1..Len(Execs) : Execs[i].res # "ok")
              => pc = "idle" /\ NotReady
        /\ (cmd.kind = "wait_for_ready" /\ pc = "idle" /\ result = Ok)
              => Execs # <<>> /\ Last(Execs).res = "ok"
        /\ cmd.kind = "setup_server"
              => /\ cmd.max_attempts = 30 /\ cmd.interval = 10
                 /\ (pc \in {"run_setup_script", "setup_ssh_config"}
                        \/ Count(calls, "run_setup_script") > 0
                        \/ Count(calls, "setup_ssh_config") > 0)
                       => Execs # <<>> /\ Last(Execs).res = "ok"
                 /\ \A i \in 1..Len(calls) :
                       calls[i].op \in {"run_setup_script", "setup_ssh_config"}
                           => /\ i > Len(Execs)
                              /\ calls[i - 1].res = "ok"
                 /\ Count(calls, "setup_ssh_config") > 0
                       => Count(calls, "run_setup_script") = 1

\* C30: wait_for_ready makes at most max_attempts attempts, stops with Ok at
\* the first attempt that succeeds, returns SshFailed after max_attempts
\* failed attempts and always returns; setup_server waits with 30 attempts
\* 10 seconds apart, and runs the setup script and then registers the host in
\* the SSH config only after the wait has returned Ok.
C30_WaitThenSetup ==
    /\ []C30_Safety
    /\ (pc # "idle") ~> (pc = "idle")

C30_Witness ==
    /\ cmd # NoCmd /\ cmd.kind = "setup_server"
    /\ pc = "idle" /\ result = Ok
    /\ Len(Execs) > 1
    /\ Execs[1].res # "ok"
    /\ Count(calls, "setup_ssh_config") = 1


====
